---------------------------- MODULE Spec2Model ----------------------------
(***************************************************************************)
(* Procurement process optimization (procurement_optimization.py).         *)
(*                                                                         *)
(* The program computes, for one SKU, the order quantity Q that minimizes  *)
(* the annual cost  D/Q * S + Q/2 * c * r + Q/2 * s,  once by the classic  *)
(* square-root formula and once by a bounded scalar search.                *)
(*                                                                         *)
(* Numbers.  The program computes in Python numbers.  Here a number is an  *)
(* exact rational <<i, n, d>> = i + n/d  with 0 <= n < d, gcd(n, d) = 1;   *)
(* the value with d = 0 is float('inf').  The two places where the program *)
(* leaves the rationals are rounded to the grid of step 1/Scale:           *)
(* math.sqrt returns the grid value nearest to the root, and the points    *)
(* the scalar search evaluates lie on the grid.                            *)
(***************************************************************************)
EXTENDS Integers, Sequences, FiniteSets, TLC

VARIABLES
    entry,   \* the function the caller invoked
    args,    \* the arguments of the function being executed
    pc,      \* position in the program
    ret,     \* the tuple of values the entry function returned, <<>> before
    exc,     \* the exception that left the entry function, "none" otherwise
    brent,   \* minimize_scalar's local variables
    res,     \* <<the OptimizeResult>> once minimize_scalar has returned
    loc,     \* analyze_sku's local variables
    skus,    \* main's SKU table
    sku,     \* main's position in the SKU table
    calls,   \* the calls made so far, in order: <<function, SKU index>>
    table    \* the rows compare_order_quantities has printed

vars == <<entry, args, pc, ret, exc, brent, res, loc, skus, sku, calls, table>>

---------------------------------------------------------------------------
(* Bounds of the model *)

Scale == 10       \* grid steps per unit: resolution of sqrt and of the search
MaxDemand == 12   \* largest annual demand of the drawn parameter sets
MaxQ == 16        \* order quantities are drawn from k/2, k in 1..MaxQ

---------------------------------------------------------------------------
(* Exact rational arithmetic *)

Abs(i) == IF i < 0 THEN -i ELSE i

RECURSIVE GCD(_, _)
GCD(a, b) == IF b = 0 THEN a ELSE GCD(b, a % b)

\* i + n/d for any integer n and d > 0, in canonical form
Mk(i, n, d) ==
    LET q == n \div d
        r == n % d
        g == GCD(r, d)
    IN  <<i + q, r \div g, d \div g>>

RInt(i) == <<i, 0, 1>>
Frac(n, d) == Mk(0, n, d)
Inf == <<0, 1, 0>>
IsInf(p) == p[3] = 0

RAdd(p, q) ==
    LET g == GCD(p[3], q[3])
    IN  Mk(p[1] + q[1],
           p[2] * (q[3] \div g) + q[2] * (p[3] \div g),
           (p[3] \div g) * q[3])

RNeg(p) == Mk(-p[1], -p[2], p[3])
RSub(p, q) == RAdd(p, RNeg(q))

\* a/b <= c/d for proper fractions, by comparing their continued fractions
RECURSIVE FracLe(_, _, _, _)
FracLe(a, b, c, d) ==
    IF a = 0 THEN TRUE
    ELSE IF c = 0 THEN FALSE
    ELSE LET u == d \div c
             v == b \div a
         IN  IF u < v THEN TRUE
             ELSE IF u > v THEN FALSE
             ELSE FracLe(d % c, c, b % a, a)

RLe(p, q) ==
    IF IsInf(q) THEN TRUE
    ELSE IF IsInf(p) THEN FALSE
    ELSE p[1] < q[1] \/ (p[1] = q[1] /\ FracLe(p[2], p[3], q[2], q[3]))

RLt(p, q) == ~RLe(q, p)

IsZero(p) == p[1] = 0 /\ p[2] = 0 /\ p[3] # 0
IsNeg(p) == p[1] < 0
IsPos(p) == ~IsNeg(p) /\ ~IsZero(p)

IMulFrac(i, n, d) ==
    LET g == GCD(Abs(i), d)
    IN  Mk(0, (i \div g) * n, d \div g)

FracMul(a, b, c, d) ==
    LET g1 == GCD(a, d)
        g2 == GCD(c, b)
    IN  Mk(0, (a \div g1) * (c \div g2), (b \div g2) * (d \div g1))

RMul(p, q) ==
    RAdd(RAdd(RInt(p[1] * q[1]), IMulFrac(p[1], q[2], q[3])),
         RAdd(IMulFrac(q[1], p[2], p[3]), FracMul(p[2], p[3], q[2], q[3])))

\* 1/p for p # 0
Recip(p) ==
    LET m == p[1] * p[3] + p[2]
    IN  IF m > 0 THEN Mk(0, p[3], m) ELSE Mk(0, -p[3], -m)

RDiv(p, q) == RMul(p, Recip(q))

\* floor(p * k) for an integer k >= 0
FloorTimes(p, k) == p[1] * k + (p[2] * k) \div p[3]

---------------------------------------------------------------------------
(* math.sqrt *)

RECURSIVE ISqrtIn(_, _, _)
ISqrtIn(n, lo, hi) ==
    IF lo >= hi THEN lo
    ELSE LET mid == (lo + hi + 1) \div 2
         IN  IF mid * mid <= n THEN ISqrtIn(n, mid, hi) ELSE ISqrtIn(n, lo, mid - 1)

\* floor of the square root of an integer n >= 0
ISqrt(n) == ISqrtIn(n, 0, IF n < 46340 THEN n ELSE 46340)

\* math.sqrt(p) for p >= 0: the multiple of 1/Scale nearest to the root
math_sqrt(p) ==
    Frac((ISqrt(FloorTimes(p, 4 * Scale * Scale)) + 1) \div 2, Scale)

---------------------------------------------------------------------------
(* calculate_total_cost *)

\* Mutants: the guard returns 0; the whole of Q is held on average; the
\* average inventory is inverted
calculate_total_cost_zero_guard(Q, D_annual, cost_per_unit, transport_cost, capital_rate, storage_cost) ==
    IF RLe(Q, RInt(0)) THEN RInt(0)
    ELSE RAdd(RAdd(RMul(RDiv(D_annual, Q), transport_cost),
                   RMul(RMul(RDiv(Q, RInt(2)), cost_per_unit), capital_rate)),
              RMul(RDiv(Q, RInt(2)), storage_cost))

calculate_total_cost_full_inventory(Q, D_annual, cost_per_unit, transport_cost, capital_rate, storage_cost) ==
    IF RLe(Q, RInt(0)) THEN Inf
    ELSE RAdd(RAdd(RMul(RDiv(D_annual, Q), transport_cost),
                   RMul(RMul(Q, cost_per_unit), capital_rate)),
              RMul(Q, storage_cost))

calculate_total_cost_inverted_inventory(Q, D_annual, cost_per_unit, transport_cost, capital_rate, storage_cost) ==
    IF RLe(Q, RInt(0)) THEN Inf
    ELSE RAdd(RAdd(RMul(RDiv(D_annual, Q), transport_cost),
                   RMul(RMul(RDiv(RInt(2), Q), cost_per_unit), capital_rate)),
              RMul(RDiv(RInt(2), Q), storage_cost))

calculate_total_cost(Q, D_annual, cost_per_unit, transport_cost, capital_rate, storage_cost) ==
    IF RLe(Q, RInt(0)) THEN Inf
    ELSE LET n_orders == RDiv(D_annual, Q)
             total_transport == RMul(n_orders, transport_cost)
             avg_inventory == RDiv(Q, RInt(2))
             capital_cost == RMul(RMul(avg_inventory, cost_per_unit), capital_rate)
             total_storage == RMul(avg_inventory, storage_cost)
             total == RAdd(RAdd(total_transport, capital_cost), total_storage)
         IN  total

---------------------------------------------------------------------------
(* economic_order_quantity: the value returned, or the exception raised *)

\* Mutant: the factor 2 of the formula is missing
economic_order_quantity_no_factor(D_annual, transport_cost, holding_cost_rate) ==
    IF IsZero(holding_cost_rate)
    THEN [raised |-> "ZeroDivisionError", value |-> RInt(0)]
    ELSE LET radicand == RDiv(RMul(D_annual, transport_cost), holding_cost_rate)
         IN  IF IsNeg(radicand)
             THEN [raised |-> "ValueError", value |-> RInt(0)]
             ELSE [raised |-> "none", value |-> math_sqrt(radicand)]

economic_order_quantity(D_annual, transport_cost, holding_cost_rate) ==
    IF IsZero(holding_cost_rate)
    THEN [raised |-> "ZeroDivisionError", value |-> RInt(0)]
    ELSE LET radicand == RDiv(RMul(RMul(RInt(2), D_annual), transport_cost),
                              holding_cost_rate)
         IN  IF IsNeg(radicand)
             THEN [raised |-> "ValueError", value |-> RInt(0)]
             ELSE [raised |-> "none", value |-> math_sqrt(radicand)]

---------------------------------------------------------------------------
(* minimize_scalar(objective, bounds=(1, D_annual), method='bounded')       *)
(*                                                                         *)
(* The bounded scalar minimizer the program calls: Brent's method on the   *)
(* bracket [a, b], a golden-section step or a parabolic-interpolation step *)
(* per evaluation.  Abscissae (a, b, fulc, nfc, xf, x, rat, e) are counted *)
(* in grid steps of 1/Scale; function values are exact.                    *)

golden_mean == Frac(382, 1000)       \* 0.5 * (3.0 - sqrt(5.0))
maxiter == 500                       \* the routine's default evaluation budget
FitBits == 512                       \* operands of the parabolic fit are cut below this

\* sqrt_eps * |xf| + xatol / 3.0 is below the grid's resolution: one grid step
tol1(xf) == 1
tol2(xf) == 2 * tol1(xf)

Max(i, j) == IF i >= j THEN i ELSE j
Sgn(i) == IF i < 0 THEN -1 ELSE 1            \* np.sign(v) + (v == 0)
Trunc(v, s) == IF v < 0 THEN -((-v) \div s) ELSE v \div s
RoundDiv(n, d) == Sgn(n) * ((2 * Abs(n) + d) \div (2 * d))
RoundR(p) == FloorTimes(RAdd(p, Frac(1, 2)), 1)

RECURSIVE FitShift(_, _)
FitShift(v, s) == IF v \div s < FitBits THEN s ELSE FitShift(v, 2 * s)

\* the objective closure: the cost at the grid point x for the parameters p
objective(x, p) ==
    calculate_total_cost(Frac(x, Scale), p.D_annual, p.cost_per_unit,
                         p.transport_cost, p.capital_rate, p.storage_cost)

\* The parabola through (fulc, ffulc), (nfc, fnfc), (xf, fx): whether its
\* step is acceptable, and the step.  The abscissa differences and the
\* function differences are each cut to FitBits by a common power of two.

\* the fit's quotient p / q (in lam grid steps) and the tests on it
FitAccept(m, lam, p, q) ==
    LET r == m.e                                               \* r = e
        step == IF q = 0 THEN RInt(0) ELSE Mk(0, p, q)
        ok == /\ q # 0
              /\ RLt(Mk(0, Abs(p), q), Mk(0, Abs(r), 2 * lam))   \* |p| < |0.5*q*r|
              /\ RLt(Mk(0, m.a - m.xf, lam), step)              \* p > q*(a - xf)
              /\ RLt(step, Mk(0, m.b - m.xf, lam))              \* p < q*(b - xf)
    IN  [ok |-> ok,
         rat |-> IF ok THEN RoundR(RMul(RInt(lam), step)) ELSE 0]

\* if q > 0: p = -p;  q = abs(q)
FitSign(m, lam, p0, q1) ==
    FitAccept(m, lam, IF q1 > 0 THEN -p0 ELSE p0, Abs(q1))

\* r = (xf - nfc) * (fx - ffulc);  q = (xf - fulc) * (fx - fnfc);
\* p = (xf - fulc) * q - (xf - nfc) * r;  q = 2.0 * (q - r)
FitProducts(m, lam, u, v, g, h) ==
    FitSign(m, lam, v * (v * h) - u * (u * g), 2 * (v * h - u * g))

FitCut(m, u0, v0, g0, h0, lam, mu) ==
    FitProducts(m, lam, Trunc(u0, lam), Trunc(v0, lam), Trunc(g0, mu), Trunc(h0, mu))

FitDifferences(m, u0, v0, g0, h0) ==
    FitCut(m, u0, v0, g0, h0,
           FitShift(Max(Abs(u0), Abs(v0)), 1), FitShift(Max(Abs(g0), Abs(h0)), 1))

ParabolicFit(m) ==
    FitDifferences(m, m.xf - m.nfc, m.xf - m.fulc,
                   FloorTimes(m.fx, Scale) - FloorTimes(m.ffulc, Scale),
                   FloorTimes(m.fx, Scale) - FloorTimes(m.fnfc, Scale))

\* The step taken from xf: the parabolic step when the fit is acceptable
\* (a tolerance step towards the midpoint when it lands too near an end),
\* the golden-section step otherwise.  2 * xm = a + b.
BrentPoint(m, fit) ==
    LET t1 == tol1(m.xf)
        t2 == tol2(m.xf)
        near == \/ (m.xf + fit.rat - m.a) < t2
                \/ (m.b - (m.xf + fit.rat)) < t2
        towards == IF m.a + m.b - 2 * m.xf >= 0 THEN 1 ELSE -1
        e_gold == IF 2 * m.xf >= m.a + m.b THEN m.a - m.xf ELSE m.b - m.xf
        rat1 == IF fit.ok
                THEN (IF near THEN t1 * towards ELSE fit.rat)
                ELSE RoundDiv(golden_mean[2] * e_gold, golden_mean[3])
    IN  [e |-> IF fit.ok THEN m.rat ELSE e_gold,
         rat |-> rat1,
         x |-> m.xf + Sgn(rat1) * Max(Abs(rat1), t1)]

\* The bracket and the three kept points after the evaluation fu at x
BrentUpdate(m, x, fu) ==
    IF RLe(fu, m.fx)
    THEN [m EXCEPT !.a = IF x >= m.xf THEN m.xf ELSE m.a,
                   !.b = IF x >= m.xf THEN m.b ELSE m.xf,
                   !.fulc = m.nfc, !.ffulc = m.fnfc,
                   !.nfc = m.xf, !.fnfc = m.fx,
                   !.xf = x, !.fx = fu]
    ELSE IF RLe(fu, m.fnfc) \/ m.nfc = m.xf
    THEN [m EXCEPT !.a = IF x < m.xf THEN x ELSE m.a,
                   !.b = IF x < m.xf THEN m.b ELSE x,
                   !.fulc = m.nfc, !.ffulc = m.fnfc,
                   !.nfc = x, !.fnfc = fu]
    ELSE IF RLe(fu, m.ffulc) \/ m.fulc = m.xf \/ m.fulc = m.nfc
    THEN [m EXCEPT !.a = IF x < m.xf THEN x ELSE m.a,
                   !.b = IF x < m.xf THEN m.b ELSE x,
                   !.fulc = x, !.ffulc = fu]
    ELSE [m EXCEPT !.a = IF x < m.xf THEN x ELSE m.a,
                   !.b = IF x < m.xf THEN m.b ELSE x]

BrentEvaluate(m, s, fu) ==
    [BrentUpdate(m, s.x, fu) EXCEPT
         !.e = s.e, !.rat = s.rat, !.x = s.x, !.fu = fu, !.num = m.num + 1,
         !.flag = IF m.num + 1 >= maxiter THEN 1 ELSE 0]

BrentMove(m, s, p) == BrentEvaluate(m, s, objective(s.x, p))

\* One pass through the body of the while loop
BrentStep(m, p) ==
    BrentMove(m,
              BrentPoint(m, IF Abs(m.e) > tol1(m.xf)           \* check for parabolic fit
                            THEN ParabolicFit(m)
                            ELSE [ok |-> FALSE, rat |-> 0]),
              p)

\* Mutant: the loop's test compares with the tolerance alone
BrentContinue_ignores_bracket(m) ==
    Abs(2 * m.xf - (m.a + m.b)) > 2 * tol2(m.xf) - 2 * (m.b - m.a) - 4

\* while np.abs(xf - xm) > (tol2 - 0.5 * (b - a))
BrentContinue(m) ==
    Abs(2 * m.xf - (m.a + m.b)) > 2 * tol2(m.xf) - (m.b - m.a)

\* The state set up before the loop, for the bracket [x1, x2] in grid steps
BrentInit(x1, x2, p) ==
    LET fulc == x1 + RoundDiv(golden_mean[2] * (x2 - x1), golden_mean[3])
        fx == objective(fulc, p)
    IN  [a |-> x1, b |-> x2, fulc |-> fulc, nfc |-> fulc, xf |-> fulc,
         rat |-> 0, e |-> 0, x |-> fulc, fx |-> fx, fu |-> Inf,
         ffulc |-> fx, fnfc |-> fx, num |-> 1, flag |-> 0]

NoBrent ==
    [a |-> 0, b |-> 0, fulc |-> 0, nfc |-> 0, xf |-> 0, rat |-> 0, e |-> 0,
     x |-> 0, fx |-> Inf, fu |-> Inf, ffulc |-> Inf, fnfc |-> Inf,
     num |-> 0, flag |-> 0]

\* OptimizeResult(fun=fval, status=flag, success=(flag == 0), x=xf, nfev=num)
OptimizeResult(m) ==
    [x |-> Frac(m.xf, Scale), fun |-> m.fx, status |-> m.flag,
     success |-> (m.flag = 0), nfev |-> m.num]

---------------------------------------------------------------------------
\* Mutant: the bracket reaches to twice the demand
search_bounds_double(D_annual) == <<Scale, 2 * FloorTimes(D_annual, Scale)>>

\* bounds=(1, D_annual), in grid steps
search_bounds(D_annual) == <<Scale, FloorTimes(D_annual, Scale)>>

\* return result.x, result.fun
optimize_return(result) == <<result.x, result.fun>>

---------------------------------------------------------------------------
(* compare_order_quantities: the rows of the table *)

quantities == <<50, 100, 200, 500, 1000, 2000>>

compare_order_quantities(D_annual, cost_per_unit, transport_cost, capital_rate, storage_cost) ==
    [k \in 1..Len(quantities) |->
        LET Q == RInt(quantities[k])
        IN  [Q |-> Q,
             cost |-> calculate_total_cost(Q, D_annual, cost_per_unit,
                                           transport_cost, capital_rate,
                                           storage_cost),
             n_orders |-> RDiv(D_annual, Q),
             days_supply |-> RMul(RDiv(Q, D_annual), RInt(365))]]

---------------------------------------------------------------------------
(* Parameter sets the caller draws from *)

DemandSet == {RInt(-1), RInt(0), RInt(1), RInt(2), RInt(5), RInt(MaxDemand)}
UnitCostSet == {RInt(0), RInt(5), RInt(25)}
TransportSet == {RInt(0), RInt(1), RInt(3), RInt(40)}
CapitalRateSet == {RInt(0), Frac(1, 10)}
StorageSet == {RInt(-1), RInt(0), RInt(2)}
QGrid == {Frac(k, 2) : k \in 1..MaxQ}
QSet == {RInt(-5), RInt(0)} \cup QGrid
HoldingSet == {RInt(-1), RInt(0), Frac(1, 2), RInt(2), Frac(9, 2)}

\* main's three SKUs, and three a data error would produce
SkuA == [name |-> "SKU-A", demand |-> RInt(12000), unit_cost |-> RInt(25),
         transport |-> RInt(150)]
SkuB == [name |-> "SKU-B", demand |-> RInt(5000), unit_cost |-> RInt(100),
         transport |-> RInt(200)]
SkuC == [name |-> "SKU-C", demand |-> RInt(50000), unit_cost |-> RInt(5),
         transport |-> RInt(100)]
SkuZeroDemand == [SkuA EXCEPT !.name = "SKU-Z", !.demand = RInt(0)]
SkuZeroHolding == [SkuA EXCEPT !.name = "SKU-H", !.unit_cost = RInt(-20)]
SkuNegHolding == [SkuA EXCEPT !.name = "SKU-N", !.unit_cost = RInt(-30)]
SkuSet == {SkuA, SkuB, SkuC, SkuZeroDemand, SkuZeroHolding, SkuNegHolding}

main_skus == <<SkuA, SkuB, SkuC>>
main_capital_rate == Frac(1, 10)
main_storage_cost == RInt(2)

NoArgs ==
    [Q |-> RInt(0), D_annual |-> RInt(0), cost_per_unit |-> RInt(0),
     transport_cost |-> RInt(0), capital_rate |-> RInt(0),
     storage_cost |-> RInt(0), holding_cost_rate |-> RInt(0)]

NoLocals ==
    [holding_cost |-> RInt(0), eoq |-> RInt(0), opt_Q |-> RInt(0),
     opt_cost |-> RInt(0), n_orders |-> RInt(0), avg_inventory |-> RInt(0),
     days_supply |-> RInt(0)]

CostArgs(D, c, S, r, s) ==
    [NoArgs EXCEPT !.D_annual = D, !.cost_per_unit = c, !.transport_cost = S,
                   !.capital_rate = r, !.storage_cost = s]

InitCost ==
    /\ entry = "calculate_total_cost"
    /\ \E Q \in QSet, D \in DemandSet, c \in UnitCostSet, S \in TransportSet,
          r \in CapitalRateSet, s \in StorageSet :
          args = [CostArgs(D, c, S, r, s) EXCEPT !.Q = Q]
    /\ pc = "call_cost"
    /\ skus = <<>>

InitEoq ==
    /\ entry = "economic_order_quantity"
    /\ \E D \in DemandSet, S \in TransportSet, H \in HoldingSet :
          args = [NoArgs EXCEPT !.D_annual = D, !.transport_cost = S,
                                !.holding_cost_rate = H]
    /\ pc = "call_eoq"
    /\ skus = <<>>

InitOptimize ==
    /\ entry = "optimize_order_quantity"
    /\ \E D \in DemandSet, c \in UnitCostSet, S \in TransportSet,
          r \in CapitalRateSet, s \in StorageSet :
          args = CostArgs(D, c, S, r, s)
    /\ pc = "call_minimize"
    /\ skus = <<>>

InitAnalyze ==
    /\ entry = "analyze_sku"
    /\ \E D \in DemandSet, c \in UnitCostSet, S \in TransportSet,
          r \in CapitalRateSet, s \in StorageSet :
          args = CostArgs(D, c, S, r, s)
    /\ pc = "call_eoq"
    /\ skus = <<>>

InitMain ==
    /\ entry = "main"
    /\ args = NoArgs
    /\ pc = "main_loop"
    /\ skus \in [1..3 -> SkuSet]

Init ==
    /\ InitCost \/ InitEoq \/ InitOptimize \/ InitAnalyze \/ InitMain
    /\ ret = <<>>
    /\ exc = "none"
    /\ brent = NoBrent
    /\ res = <<>>
    /\ loc = NoLocals
    /\ sku = 1
    /\ calls = <<>>
    /\ table = <<>>

---------------------------------------------------------------------------
(* The steps of the program *)

\* calculate_total_cost called by the caller
CallCost ==
    /\ pc = "call_cost"
    /\ ret' = <<calculate_total_cost(args.Q, args.D_annual, args.cost_per_unit,
                                     args.transport_cost, args.capital_rate,
                                     args.storage_cost)>>
    /\ pc' = "done"
    /\ calls' = Append(calls, <<"calculate_total_cost", 0>>)
    /\ UNCHANGED <<entry, args, exc, brent, res, loc, skus, sku, table>>

\* Mutant: main catches the closed form's error and goes on to the next SKU
CallEoq_caught ==
    /\ pc = "call_eoq"
    /\ LET holding_cost ==
               IF entry = "economic_order_quantity" THEN args.holding_cost_rate
               ELSE RAdd(RMul(args.cost_per_unit, args.capital_rate),
                         args.storage_cost)
           r == economic_order_quantity(args.D_annual, args.transport_cost,
                                        holding_cost)
           index == IF entry = "main" THEN sku ELSE 0
       IN  /\ calls' = Append(calls, <<"economic_order_quantity", index>>)
           /\ IF r.raised # "none" /\ entry = "main"
              THEN /\ pc' = "main_loop"
                   /\ sku' = sku + 1
                   /\ UNCHANGED <<ret, loc, exc>>
              ELSE IF r.raised # "none"
              THEN /\ exc' = r.raised
                   /\ pc' = "raised"
                   /\ UNCHANGED <<ret, loc, sku>>
              ELSE IF entry = "economic_order_quantity"
              THEN /\ ret' = <<r.value>>
                   /\ pc' = "done"
                   /\ UNCHANGED <<exc, loc, sku>>
              ELSE /\ loc' = [NoLocals EXCEPT !.holding_cost = holding_cost,
                                              !.eoq = r.value]
                   /\ pc' = "call_minimize"
                   /\ UNCHANGED <<exc, ret, sku>>
    /\ UNCHANGED <<entry, args, brent, res, skus, table>>

\* economic_order_quantity, called by the caller or by analyze_sku, which
\* first computes holding_cost = cost_per_unit * capital_rate + storage_cost
CallEoq ==
    /\ pc = "call_eoq"
    /\ LET holding_cost ==
               IF entry = "economic_order_quantity" THEN args.holding_cost_rate
               ELSE RAdd(RMul(args.cost_per_unit, args.capital_rate),
                         args.storage_cost)
           r == economic_order_quantity(args.D_annual, args.transport_cost,
                                        holding_cost)
           index == IF entry = "main" THEN sku ELSE 0
       IN  /\ calls' = Append(calls, <<"economic_order_quantity", index>>)
           /\ IF r.raised # "none"
              THEN /\ exc' = r.raised
                   /\ pc' = "raised"
                   /\ UNCHANGED <<ret, loc>>
              ELSE IF entry = "economic_order_quantity"
              THEN /\ ret' = <<r.value>>
                   /\ pc' = "done"
                   /\ UNCHANGED <<exc, loc>>
              ELSE /\ loc' = [NoLocals EXCEPT !.holding_cost = holding_cost,
                                              !.eoq = r.value]
                   /\ pc' = "call_minimize"
                   /\ UNCHANGED <<exc, ret>>
    /\ UNCHANGED <<entry, args, brent, res, skus, sku, table>>

\* optimize_order_quantity calls minimize_scalar with bounds=(1, D_annual):
\* the bounds are checked and the first point is evaluated
MinimizeStart ==
    /\ pc = "call_minimize"
    /\ calls' = Append(calls, <<"optimize_order_quantity",
                                IF entry = "main" THEN sku ELSE 0>>)
    /\ LET bounds == search_bounds(args.D_annual)
       IN  IF bounds[1] > bounds[2]
           THEN /\ exc' = "ValueError"
                /\ pc' = "raised"
                /\ brent' = brent
           ELSE /\ brent' = BrentInit(bounds[1], bounds[2], args)
                /\ pc' = "minimize_loop"
                /\ exc' = exc
    /\ UNCHANGED <<entry, args, ret, res, loc, skus, sku, table>>

\* one iteration of minimize_scalar's loop: one more evaluation of the cost
MinimizeStep ==
    /\ pc = "minimize_loop"
    /\ brent.flag = 0
    /\ BrentContinue(brent)
    /\ brent' = BrentStep(brent, args)
    /\ UNCHANGED <<entry, args, pc, ret, exc, res, loc, skus, sku, calls, table>>

\* the loop ends; optimize_order_quantity returns result.x, result.fun
MinimizeReturn ==
    /\ pc = "minimize_loop"
    /\ brent.flag # 0 \/ ~BrentContinue(brent)
    /\ LET result == OptimizeResult(brent)
           returned == optimize_return(result)
       IN  /\ res' = <<result>>
           /\ IF entry = "optimize_order_quantity"
              THEN /\ ret' = returned
                   /\ pc' = "done"
                   /\ loc' = loc
              ELSE /\ loc' = [loc EXCEPT !.opt_Q = returned[1],
                                         !.opt_cost = returned[2]]
                   /\ pc' = "report"
                   /\ ret' = ret
    /\ UNCHANGED <<entry, args, exc, brent, skus, sku, calls, table>>

\* analyze_sku's cost breakdown at the optimal Q, and its return
AnalyzeReport ==
    /\ pc = "report"
    /\ loc' = [loc EXCEPT !.n_orders = RDiv(args.D_annual, loc.opt_Q),
                          !.avg_inventory = RDiv(loc.opt_Q, RInt(2)),
                          !.days_supply = RMul(RDiv(loc.opt_Q, args.D_annual),
                                               RInt(365))]
    /\ IF entry = "analyze_sku"
       THEN /\ ret' = <<loc.opt_Q, loc.opt_cost>>
            /\ pc' = "done"
            /\ sku' = sku
       ELSE /\ ret' = ret
            /\ pc' = "main_loop"
            /\ sku' = sku + 1
    /\ UNCHANGED <<entry, args, exc, brent, res, skus, calls, table>>

\* main's loop over the SKU table: the next SKU is handed to analyze_sku
MainNextSku ==
    /\ pc = "main_loop"
    /\ sku <= Len(skus)
    /\ args' = CostArgs(skus[sku].demand, skus[sku].unit_cost, skus[sku].transport,
                        main_capital_rate, main_storage_cost)
    /\ calls' = Append(calls, <<"analyze_sku", sku>>)
    /\ pc' = "call_eoq"
    /\ UNCHANGED <<entry, ret, exc, brent, res, loc, skus, sku, table>>

\* after the loop, compare_order_quantities for the first SKU
MainCompare ==
    /\ pc = "main_loop"
    /\ sku > Len(skus)
    /\ calls' = Append(calls, <<"compare_order_quantities", 1>>)
    /\ table' = compare_order_quantities(skus[1].demand, skus[1].unit_cost,
                                         skus[1].transport, main_capital_rate,
                                         main_storage_cost)
    /\ pc' = "done"
    /\ UNCHANGED <<entry, args, ret, exc, brent, res, loc, skus, sku>>

Next ==
    \/ CallCost
    \/ CallEoq
    \/ MinimizeStart
    \/ MinimizeStep
    \/ MinimizeReturn
    \/ AnalyzeReport
    \/ MainNextSku
    \/ MainCompare

Spec == Init /\ [][Next]_vars

---------------------------------------------------------------------------
(* Properties *)

Terminated == pc \in {"done", "raised"}
Returned(fn) == entry = fn /\ pc = "done"
Zero == RInt(0)
CostAt(Q) ==
    calculate_total_cost(Q, args.D_annual, args.cost_per_unit,
                         args.transport_cost, args.capital_rate,
                         args.storage_cost)
HoldingRate == RAdd(RMul(args.cost_per_unit, args.capital_rate), args.storage_cost)
\* the square of the unconstrained minimizer, 2 * D * S / H, for H # 0
MinimizerSquared ==
    RDiv(RMul(RMul(RInt(2), args.D_annual), args.transport_cost), HoldingRate)
Square(Q) == RMul(Q, Q)
Convex == IsPos(args.D_annual) /\ IsPos(args.transport_cost) /\ IsPos(HoldingRate)

\* C1: calculate_total_cost called with Q <= 0 returns +infinity as a value
\* and raises nothing, whatever the other parameters are.
C1_NonPositiveQuantityIsInfinite ==
    (Returned("calculate_total_cost") /\ RLe(args.Q, Zero))
        => (ret = <<Inf>> /\ exc = "none")

C1_Witness ==
    /\ Returned("calculate_total_cost")
    /\ args.Q = RInt(-5)
    /\ IsPos(args.D_annual)
    /\ ret = <<Inf>>

\* C2: for Q > 0 calculate_total_cost returns the sum of the transport,
\* capital and storage components, (2*D*S + Q*Q*(c*r + s)) / (2*Q) when
\* brought over one denominator, and every row of the comparison table
\* carries that cost.
ClosedFormCost(Q, D, c, S, r, s) ==
    RDiv(RAdd(RMul(RMul(RInt(2), D), S), RMul(Square(Q), RAdd(RMul(c, r), s))),
         RMul(RInt(2), Q))

C2_CostIsSumOfComponents ==
    /\ (Returned("calculate_total_cost") /\ IsPos(args.Q))
          => ret = <<ClosedFormCost(args.Q, args.D_annual, args.cost_per_unit,
                                    args.transport_cost, args.capital_rate,
                                    args.storage_cost)>>
    /\ \A k \in DOMAIN table :
          table[k].cost = ClosedFormCost(table[k].Q, skus[1].demand,
                                         skus[1].unit_cost, skus[1].transport,
                                         main_capital_rate, main_storage_cost)

C2_Witness ==
    /\ Returned("calculate_total_cost")
    /\ args.Q = Frac(3, 2)
    /\ args.D_annual = RInt(MaxDemand)
    /\ args.cost_per_unit = RInt(25)
    /\ args.transport_cost = RInt(3)
    /\ args.capital_rate = Frac(1, 10)
    /\ args.storage_cost = RInt(2)
    /\ ret = <<RAdd(RInt(24), RAdd(Frac(15, 8), Frac(3, 2)))>>

Analyzed == pc = "report"
Steps(Q) == FloorTimes(Q, Scale)                 \* a grid value, in grid steps
GridStep == Frac(1, Scale)
TransportAt(Q) ==
    calculate_total_cost(Q, args.D_annual, Zero, args.transport_cost, Zero, Zero)
HoldingAt(Q) ==
    calculate_total_cost(Q, Zero, args.cost_per_unit, args.transport_cost,
                         args.capital_rate, args.storage_cost)
\* quantities the closed form is compared with
ProbeSet ==
    QGrid \cup {RInt(quantities[k]) : k \in DOMAIN quantities}
          \cup {RAdd(loc.eoq, Frac(j, Scale)) : j \in {-3, -2, 2, 3}}
Unconstrained ==
    /\ Convex
    /\ brent.a <= Steps(loc.eoq)
    /\ Steps(loc.eoq) <= FloorTimes(args.D_annual, Scale)
    /\ Scale <= Steps(loc.eoq)

C5_DegenerateHoldingCostIsRejected ==
    (entry = "economic_order_quantity" /\ Terminated
        /\ RLe(args.holding_cost_rate, Zero))
        => (pc = "raised" /\ exc # "none" /\ ret = <<>>)

\* C6: with a non-positive annual demand neither economic_order_quantity,
\* optimize_order_quantity nor analyze_sku returns a quantity or a cost:
\* each raises an error.
C6_NonPositiveDemandIsRejected ==
    (entry \in {"economic_order_quantity", "optimize_order_quantity", "analyze_sku"}
        /\ Terminated /\ RLe(args.D_annual, Zero))
        => (pc = "raised" /\ exc # "none" /\ ret = <<>>)

\* The search has returned for the parameters in args
Searched == res # <<>> /\ (Returned("optimize_order_quantity") \/ Analyzed)
\* the closed-form minimizer sqrt(2*D*S/H) exceeds D_annual: D * H < 2 * S
AboveBracket ==
    /\ IsPos(HoldingRate) /\ RLe(RInt(1), args.D_annual)
    /\ RLt(RMul(args.D_annual, HoldingRate), RMul(RInt(2), args.transport_cost))
\* the closed-form minimizer is below 1: 2 * D * S < H
BelowBracket ==
    /\ IsPos(HoldingRate) /\ RLe(RInt(1), args.D_annual)
    /\ ~IsNeg(args.transport_cost)
    /\ RLt(RMul(RMul(RInt(2), args.D_annual), args.transport_cost), HoldingRate)

C7_WitnessBelow ==
    /\ Returned("optimize_order_quantity")
    /\ BelowBracket
    /\ RLt(RInt(1), ret[1])

\* C8: the search ends after a bounded number of evaluations.  Every
\* evaluation but the first narrows the bracket, whose width is never
\* negative, by at least one grid step, so the evaluations are bounded by
\* the width of the bracket (1, D_annual), and they never exceed the budget
\* maxiter.
BracketWidth(m) == m.b - m.a
FullWidth == FloorTimes(args.D_annual, Scale) - Scale

C9_ReturnsConvergenceFlag ==
    (Returned("optimize_order_quantity")
        /\ (IsZero(HoldingRate) \/ ~res[1].success))
        => /\ Len(ret) >= 3
           /\ ret[1] = args.D_annual

\* C10: analyze_sku calls economic_order_quantity before the search, so
\* when the closed form raises the search is never started and analyze_sku
\* returns nothing; and main, which catches nothing, then analyzes no later
\* SKU and prints no comparison table.
Last(q) == q[Len(q)]
\* what economic_order_quantity does for the SKU of the k-th call
EoqOutcome(k) ==
    IF entry = "main"
    THEN economic_order_quantity(
             skus[calls[k][2]].demand, skus[calls[k][2]].transport,
             RAdd(RMul(skus[calls[k][2]].unit_cost, main_capital_rate),
                  main_storage_cost))
    ELSE economic_order_quantity(args.D_annual, args.transport_cost, HoldingRate)
EoqFailed ==
    /\ entry \in {"analyze_sku", "main"}
    /\ calls # <<>>
    /\ Last(calls)[1] = "economic_order_quantity"
    /\ EoqOutcome(Len(calls)).raised # "none"

C10_ClosedFormFirstAndFailureStopsMain ==
    entry \in {"analyze_sku", "main"} =>
        /\ \A k \in DOMAIN calls :
              /\ calls[k][1] = "optimize_order_quantity"
                    => (k > 1 /\ calls[k - 1] = <<"economic_order_quantity", calls[k][2]>>)
              /\ (calls[k][1] = "economic_order_quantity"
                     /\ EoqOutcome(k).raised # "none")
                    => (k = Len(calls) /\ pc = "raised" /\ exc = EoqOutcome(k).raised)
        /\ EoqFailed =>
              /\ ret = <<>>
              /\ \A k \in DOMAIN calls :
                    calls[k] # <<"optimize_order_quantity", Last(calls)[2]>>
        /\ pc = "raised" =>
              /\ ret = <<>>
              /\ table = <<>>
              /\ \A k \in DOMAIN calls :
                    calls[k][2] <= sku /\ calls[k][1] # "compare_order_quantities"
              /\ entry = "main" =>
                    Cardinality({k \in DOMAIN calls : calls[k][1] = "analyze_sku"}) = sku

C10_Witness ==
    /\ EoqFailed
    /\ entry = "main"
    /\ exc = "ZeroDivisionError"
    /\ sku = 2
    /\ skus[3] = SkuC
    /\ Len(calls) = 5

===========================================================================
